---- MODULE Spec2Model ----
(***************************************************************************)
(* Elara backend: the document-analysis pipeline.                          *)
(*                                                                         *)
(*   backend/app/services/document_service.py    ModelRegistry,            *)
(*                                               DocumentService           *)
(*   backend/app/services/websocket_file_handler.py  WebSocketFileHandler  *)
(*   backend/app/routes/chat.py                  websocket_endpoint        *)
(*                                                                         *)
(* Four specifications share the variables:                                *)
(*   SpecChunk  DocumentService.chunk_text, one loop iteration per step    *)
(*   Spec       one document-analysis job (handler + service); the         *)
(*              asyncio.Event handed in as stop_event may be set by its    *)
(*              owner whenever the job is suspended in an await            *)
(*   SpecWS     websocket_endpoint: the receive loop, which runs the job   *)
(*              inline and is the only place that sets the stop event      *)
(*   SpecFn     the pure functions should_chunk_documents and              *)
(*              calculate_timeout, applied to arguments drawn at each call *)
(*                                                                         *)
(* Indices are Python's (0-based, half-open slices); text[i] of the source *)
(* is PyAt(text, i) here.  Floats of the source are exact rationals here;  *)
(* int(x) is truncation.                                                   *)
(***************************************************************************)
EXTENDS Integers, Sequences, FiniteSets, TLC

VARIABLES
    MODEL_CONTEXTS,   \* ModelRegistry.MODEL_CONTEXTS (class attribute, mutable)
    ct,               \* chunk_text: its arguments and locals
    job,              \* analyze_documents and its callers: arguments and locals
    stop_event,       \* the asyncio.Event handed to the job (is_set())
    sent,             \* messages written to the WebSocket, in order
    backend,          \* query_ollama calls: the one in flight, and counts
    conn,             \* websocket_endpoint: receive loop and client inbox
    call              \* one of the pure functions: its arguments and results

vars == <<MODEL_CONTEXTS, ct, job, stop_event, sent, backend, conn, call>>

----------------------------------------------------------------------------
(* Arithmetic helpers                                                      *)

Min(a, b) == IF a <= b THEN a ELSE b
Max(a, b) == IF a >= b THEN a ELSE b

\* floats as rationals <<num, den>>, den > 0
RatLeq(p, q) == p[1] * q[2] <= q[1] * p[2]
RatMin(p, q) == IF RatLeq(p, q) THEN p ELSE q
RatMul(p, num, den) == <<p[1] * num, p[2] * den>>

\* int(x * num/den) for an integer x: truncation toward zero
IntMul(x, num, den) ==
    IF x >= 0 THEN (x * num) \div den ELSE -(((-x) * num) \div den)

----------------------------------------------------------------------------
(* ModelRegistry                                                           *)

DEFAULT_CONTEXT == 4096

InitialModelContexts ==
    [m \in {"tinyllama:1.1b", "llama3.2:1b"} |-> 2048] @@
    [m \in {"llama3.2:3b"} |-> 4096] @@
    [m \in {"llama3.2:8b", "phi3:mini", "llama3:latest",
            "codellama:7b-instruct", "deepseek-coder:6.7b",
            "dolphin-mistral:7b", "starcoder2:3b", "qwen2.5-coder:1.5b",
            "qwen2.5-coder:3b", "gemma:2b", "llava:7b", "llava:13b",
            "llava:34b", "bakllava:7b", "llava-llama3.2:8b"} |-> 8192]

SLOW_MODELS == {"dolphin-mistral:7b", "deepseek-coder:6.7b", "codellama:7b-instruct"}

SMALL_MODELS == {"tinyllama:1.1b", "llama3.2:1b"}

\* the models chunk_text and calculate_progress_range single out by name
CAPABLE_MODELS == {"phi3:mini", "llama3:latest"}

\* a lookup without the default
get_context_length_no_default(contexts, model_name) ==
    IF model_name \in DOMAIN contexts THEN contexts[model_name] ELSE 0

get_context_length(contexts, model_name) ==
    IF model_name \in DOMAIN contexts THEN contexts[model_name] ELSE DEFAULT_CONTEXT

PROMPT_LENGTH == 500

\* len(text) // 4
estimate_tokens(text_len) == text_len \div 4

should_chunk(contexts, text_len, model_name) ==
    LET context_length == get_context_length(contexts, model_name)
        estimated_tokens == estimate_tokens(text_len) + PROMPT_LENGTH
        available_tokens == IntMul(context_length, 3, 4)
    IN  estimated_tokens > available_tokens

get_optimal_chunk_size(contexts, model_name) ==
    LET context_length == get_context_length(contexts, model_name)
        available_tokens == IntMul(context_length, 3, 4) - PROMPT_LENGTH
        base_size == available_tokens * 4
    IN  IF model_name \in SMALL_MODELS THEN IntMul(base_size, 4, 10)
        ELSE IF model_name \in SLOW_MODELS THEN IntMul(base_size, 3, 10)
        ELSE base_size

is_small_model(model_name) == model_name \in SMALL_MODELS

----------------------------------------------------------------------------
(* Texts.  The code distinguishes only sentence terminators (".!?\n") and  *)
(* what str.strip() removes, so a text is given by its length and the      *)
(* positions of its newlines, full stops and blanks; every other character *)
(* is a letter.                                                            *)

Terminators == {".", "!", "?", "\n"}
Whitespace  == {" ", "\n", "\t", "\r"}

\* len(text)
TextLen(text) == text.len

\* text[k] for 0 <= k < len(text)
CharAt(text, k) ==
    IF k \in text.nl THEN "\n"
    ELSE IF k \in text.dot THEN "."
    ELSE IF k \in text.sp THEN " "
    ELSE "a"

\* text[i] is defined (no IndexError)
PyIndexOk(text, i) == -TextLen(text) <= i /\ i < TextLen(text)

\* text[i], negative i counting from the end
PyAt(text, i) == IF i >= 0 THEN CharAt(text, i) ELSE CharAt(text, TextLen(text) + i)

\* a slice bound as Python normalises it
PyBound(n, x) == IF x < 0 THEN Max(n + x, 0) ELSE Min(x, n)

\* the characters text[s:e] for 0 <= s, e <= len(text), as a sequence
Chars(text, s, e) == [k \in 1..(e - s) |-> CharAt(text, s + k - 1)]

RECURSIVE SkipLeft(_, _, _)
\* first index in [a, b) holding a non-whitespace character, b if none
SkipLeft(text, a, b) ==
    IF a >= b THEN b
    ELSE IF CharAt(text, a) \in Whitespace THEN SkipLeft(text, a + 1, b) ELSE a

RECURSIVE SkipRight(_, _, _)
\* end of the last non-whitespace character in [a, b), a if none
SkipRight(text, a, b) ==
    IF b <= a THEN a
    ELSE IF CharAt(text, b - 1) \in Whitespace THEN SkipRight(text, a, b - 1) ELSE b

\* the half-open span <<s, e>> of text[a:b].strip() within text
StripSpan(text, a, b) ==
    LET lo == PyBound(TextLen(text), a)
        hi == Max(lo, PyBound(TextLen(text), b))
        s  == SkipLeft(text, lo, hi)
    IN  <<s, SkipRight(text, s, hi)>>

----------------------------------------------------------------------------
(* DocumentService.chunk_text                                              *)

CHUNK_OVERLAP == 200      \* chunk_overlap: int = 200
BOUNDARY_WINDOW == 200    \* "within the last 200 characters of the chunk"

\* the chunk_size chunk_text settles on before its loop
chunk_size_for(contexts, text_len, model_name) ==
    LET optimal_size == get_optimal_chunk_size(contexts, model_name)
    IN  IF text_len > 20000
        THEN IF model_name \in CAPABLE_MODELS
             THEN IntMul(optimal_size, 4, 10) ELSE IntMul(optimal_size, 3, 10)
        ELSE IF text_len > 10000
        THEN IF model_name \in CAPABLE_MODELS
             THEN IntMul(optimal_size, 6, 10) ELSE IntMul(optimal_size, 5, 10)
        ELSE IF model_name \in SLOW_MODELS THEN IntMul(optimal_size, 5, 10)
        ELSE optimal_size

\* for i in range(end, search_start, -1): if text[i] in ".!?\n": -> i
\* The scan runs downward, so it stops at the largest i holding a terminator;
\* it raises IndexError when it reaches an i below -len(text) first, and finds
\* nothing otherwise (an empty range included).
find_boundary(text, end, search_start) ==
    LET range == (search_start + 1)..end
        hits  == {i \in range : PyIndexOk(text, i) /\ PyAt(text, i) \in Terminators}
        bad   == {i \in range : ~PyIndexOk(text, i)}
        top   == CHOOSE i \in hits : \A j \in hits : j <= i
    IN  IF hits # {} /\ (\A b \in bad : b < top) THEN [kind |-> "hit", i |-> top]
        ELSE IF bad # {} THEN [kind |-> "index_error", i |-> 0]
        ELSE [kind |-> "none", i |-> 0]

\* the value of `end` after the sentence-boundary search of one iteration,
\* and whether the search raised
chunk_end(text, chunk_size, start) ==
    LET end == start + chunk_size
    IN  IF end < TextLen(text)
        THEN LET search_start == Max(start, end - BOUNDARY_WINDOW)
                 found == find_boundary(text, end, search_start)
             IN  [end   |-> IF found.kind = "hit" THEN found.i + 1 ELSE end,
                  error |-> found.kind = "index_error"]
        ELSE [end |-> end, error |-> FALSE]

\* a chunk list that also takes the empty string
keep_chunk_always(span) == TRUE

\* if chunk:  (the stripped slice is not the empty string)
keep_chunk(span) == span[1] < span[2]

\* one iteration of the while loop: the cut, the stripped chunk (as its span
\* in text), and the next start
chunk_iteration(text, chunk_size, start) ==
    LET cut  == chunk_end(text, chunk_size, start)
        end  == cut.end
        span == StripSpan(text, start, end)
    IN  [end   |-> end,
         error |-> cut.error,
         span  |-> span,
         keep  |-> keep_chunk(span),
         next  |-> end - CHUNK_OVERLAP,
         raw   |-> <<PyBound(TextLen(text), start),
                     Max(PyBound(TextLen(text), start), PyBound(TextLen(text), end))>>]

\* how a call of chunk_text ends
ChunkTextResult(outcome, chunks) == [outcome |-> outcome, chunks |-> chunks]

RECURSIVE chunk_text_from(_, _, _, _, _)
\* the while loop from `start` on; chunks are spans <<s, e>> of text.  The
\* loop never ends when chunk_size <= 0 (end <= start, so the scan range is
\* empty and every iteration lowers start by at least the overlap) or when
\* start takes a value it had before (`seen`): start alone decides the control
\* flow of an iteration.
chunk_text_from(text, chunk_size, start, chunks, seen) ==
    IF ~(start < TextLen(text)) THEN ChunkTextResult("returned", chunks)
    ELSE IF chunk_size <= 0 \/ start \in seen THEN ChunkTextResult("never_returns", chunks)
    ELSE LET it   == chunk_iteration(text, chunk_size, start)
             more == IF it.keep THEN Append(chunks, it.span) ELSE chunks
         IN  IF it.error THEN ChunkTextResult("index_error", chunks)
             ELSE IF it.next >= TextLen(text) THEN ChunkTextResult("returned", more)
             ELSE chunk_text_from(text, chunk_size, it.next, more, seen \cup {start})

chunk_text(contexts, text, model_name) ==
    chunk_text_from(text, chunk_size_for(contexts, TextLen(text), model_name), 0, <<>>, {})

----------------------------------------------------------------------------
(* DocumentService.calculate_timeout, in seconds.  base_timeout is         *)
(* settings.document_timeout.                                              *)

calculate_timeout(base, text_length, is_chunked, model_name) ==
    LET base_timeout == IF model_name \in SLOW_MODELS
                        THEN RatMul(<<base, 1>>, 6, 10) ELSE <<base, 1>>
    IN  IF is_chunked
        THEN IF text_length > 20000
             THEN IF model_name \in CAPABLE_MODELS
                  THEN RatMin(<<45, 1>>, RatMul(base_timeout, 1, 3))
                  ELSE RatMin(<<25, 1>>, RatMul(base_timeout, 1, 5))
             ELSE IF model_name \in SLOW_MODELS
             THEN RatMin(<<25, 1>>, RatMul(base_timeout, 1, 5))
             ELSE RatMin(<<40, 1>>, RatMul(base_timeout, 1, 3))
        ELSE IF text_length < 500   THEN RatMin(<<120, 1>>, RatMul(base_timeout, 12, 10))
        ELSE IF text_length < 1000  THEN RatMin(<<90, 1>>, base_timeout)
        ELSE IF text_length < 5000  THEN RatMin(<<120, 1>>, base_timeout)
        ELSE IF text_length < 15000 THEN base_timeout
        ELSE IF text_length < 30000 THEN RatMin(<<180, 1>>, RatMul(base_timeout, 15, 10))
        ELSE IF text_length < 50000 THEN RatMin(<<300, 1>>, RatMul(base_timeout, 2, 1))
        ELSE RatMin(<<600, 1>>, RatMul(base_timeout, 3, 1))

----------------------------------------------------------------------------
(* DocumentService.calculate_progress_range.  chunk_progress is kept in    *)
(* ten-thousandths of a percent: every product of the code has at most     *)
(* four decimals, so the arithmetic is exact.                               *)

Scale == 10000

progress_start == 10

calculate_progress_range(total_chunks, model_name, avg_chunk_size) ==
    LET base_chunk_progress == 60 * Scale
        by_model ==
            IF model_name \in SLOW_MODELS THEN (base_chunk_progress * 12) \div 10
            ELSE IF model_name \in CAPABLE_MODELS THEN (base_chunk_progress * 9) \div 10
            ELSE base_chunk_progress
        min_progress_per_chunk ==          \* 0.3, 0.5 or 1.0 percent, in tenths
            IF total_chunks > 100 THEN 3 ELSE IF total_chunks > 50 THEN 5 ELSE 10
        required_progress ==
            Min((total_chunks * min_progress_per_chunk * Scale) \div 10, 70 * Scale)
        by_count ==
            IF total_chunks > 20 THEN Max(by_model, required_progress)
            ELSE IF total_chunks > 10 THEN (by_model * 12) \div 10
            ELSE IF total_chunks > 5 THEN (by_model * 11) \div 10
            ELSE IF total_chunks <= 2 THEN (by_model * 8) \div 10
            ELSE by_model
        by_size ==
            IF avg_chunk_size > 3000 THEN (by_count * 11) \div 10
            ELSE IF avg_chunk_size < 1000 THEN (by_count * 9) \div 10
            ELSE by_count
        chunk_progress == (by_size * 105) \div 100      \* has_retries
        max_progress_end == 85
        capped == Min(progress_start + (chunk_progress \div Scale), max_progress_end)
        progress_end == IF capped <= progress_start THEN progress_start + 10 ELSE capped
    IN  <<progress_start, progress_end>>

----------------------------------------------------------------------------
(* Progress values and WebSocket messages.  The code passes ints and       *)
(* floats as progress; a progress value is the rational <<num, den>>.      *)

Whole(v) == <<v, 1>>

\* int(progress) for a non-negative progress
IntOf(p) == p[1] \div p[2]

\* min(progress, 100) without int(): a fractional progress passes through
safe_progress_float(p) == IF p[1] <= 100 * p[2] THEN p ELSE Whole(100)

\* create_progress_callback: safe_progress = min(int(progress), 100)
safe_progress(p) == Whole(Min(IntOf(p), 100))

\* send_status(content, progress)
StatusMsg(p) == [type |-> "status", progress |-> p, done |-> FALSE]

\* progress_callback(message, progress) as the sink receives it
CallbackMsg(p) == StatusMsg(safe_progress(p))

\* send_error
ErrorMsg(text) == [type |-> "error", content |-> text, done |-> TRUE]

\* send_clear_progress
ClearProgressMsg == [type |-> "clear_progress", progress |-> Whole(75), done |-> FALSE]

\* send_analysis_complete(result, "document")
AnalysisCompleteMsg(method) ==
    [type |-> "document_analysis", method |-> method, progress |-> Whole(100), done |-> TRUE]

\* the choice prompt of _handle_document_analysis
ChoiceMsg == [type |-> "image_based_pdf_choice"]

RECURSIVE StreamMsgs(_, _)
\* stream_analysis_result: one file_analysis_chunk message per 100 characters,
\* progress min(75 + (i / len) * 20, 95)
StreamMsgs(len, i) ==
    IF i >= len THEN <<>>
    ELSE <<[type |-> "file_analysis_chunk",
            progress |-> safe_progress(Whole(Min(75 + ((i * 20) \div len), 95))),
            done |-> FALSE]>> \o StreamMsgs(len, i + 100)

----------------------------------------------------------------------------
(* Input texts for chunk_text.                                             *)

MaxTextLen == 18000

\* the whole text as a sequence of characters
TextOf(text) == Chars(text, 0, TextLen(text))

AtMostOne(S) == {{}} \cup {{x} : x \in S}

CT_Lens   == {0, 1001, 1400, 1458, 1600, 1700, 3000, 3300, 5000}
\* lengths in the size bands above 10,000 characters
CT_LongLens == {12000, 18000}
CT_NlPos  == {0, 1000, 1656, 1657, 3299}
CT_DotPos == {100, 1457, 1500, 1655, 3200}
CT_SpPos  == {1457, 1458}
CT_Models == {"tinyllama:1.1b", "dolphin-mistral:7b", "custom:latest"}
\* llama.context_length values a refresh stored for custom:latest
CT_Contexts == {512, 700, 750, 32768}

TextDescriptors ==
    { [len |-> n, nl |-> a, dot |-> b, sp |-> c] :
        n \in {m \in CT_Lens : m <= MaxTextLen},
        a \in AtMostOne(CT_NlPos), b \in AtMostOne(CT_DotPos),
        c \in AtMostOne(CT_SpPos) }
    \cup
    { [len |-> n, nl |-> {}, dot |-> b, sp |-> {}] :
        n \in {m \in CT_LongLens : m <= MaxTextLen}, b \in AtMostOne(CT_DotPos) }

WellFormed(d) == \A p \in d.nl \cup d.dot \cup d.sp : p < d.len

----------------------------------------------------------------------------
(* chunk_text as a loop: CT_Start is the code before the while loop,       *)
(* CT_Iterate one iteration of it.                                         *)

CtIdle == [pc |-> "off", text |-> [len |-> 0, nl |-> {}, dot |-> {}, sp |-> {}],
           model |-> "", chunk_size |-> 0, start |-> 0, chunks |-> <<>>,
           seen |-> {}]

CT_Start ==
    /\ ct.pc = "called"
    /\ ct' = [ct EXCEPT
                !.chunk_size = chunk_size_for(MODEL_CONTEXTS, ct.text.len, ct.model),
                !.start = 0,
                !.chunks = <<>>,
                !.seen = {},
                !.pc = IF 0 < ct.text.len THEN "loop" ELSE "returned"]
    /\ UNCHANGED <<call, MODEL_CONTEXTS, job, stop_event, sent, backend, conn>>

\* One iteration.  pc "raised": text[i] raised IndexError in the boundary
\* scan.  pc "never_returns": the loop goes on for ever from here, because
\* chunk_size <= 0 (every later iteration lowers start again and start stays
\* below len(text)) or because start took a value it had before (start alone
\* decides what an iteration does); the iterations after that are not stepped.
CT_Iterate ==
    /\ ct.pc = "loop"
    /\ ct.start < ct.text.len
    /\ LET it == chunk_iteration(ct.text, ct.chunk_size, ct.start)
           c  == [s |-> it.span[1], e |-> it.span[2],
                  start |-> ct.start, end |-> it.end,
                  raw_s |-> it.raw[1], raw_e |-> it.raw[2]]
       IN  IF it.error
           THEN ct' = [ct EXCEPT !.pc = "raised"]
           ELSE ct' = [ct EXCEPT
                    !.chunks = IF it.keep THEN Append(ct.chunks, c) ELSE ct.chunks,
                    !.start = it.next,
                    !.seen = ct.seen \cup {ct.start},
                    !.pc = IF it.next >= ct.text.len THEN "returned"
                           ELSE IF ct.chunk_size <= 0 \/ it.next \in ct.seen \cup {ct.start}
                           THEN "never_returns"
                           ELSE "loop"]
    /\ UNCHANGED <<call, MODEL_CONTEXTS, job, stop_event, sent, backend, conn>>

\* the string of a returned chunk
ChunkStr(text, c) == Chars(text, c.s, c.e)


----------------------------------------------------------------------------
(* One document-analysis job: its inputs and its state.                    *)

MaxFiles == 2        \* files per request
MaxFailures == 4     \* inference calls the backend fails during one job

\* an uploaded file: a supported text file holding `len` plain characters, a
\* scanned PDF, a file whose extraction raises, or an unsupported file type
TextFile(n) == [kind |-> "text", len |-> n]
ScannedPdf  == [kind |-> "scanned", len |-> 0]
CorruptFile == [kind |-> "corrupt", len |-> 0]
Unsupported == [kind |-> "unsupported", len |-> 0]

JobTextLens == {0, 300, 7000, 10001}
JobFiles  == {TextFile(n) : n \in JobTextLens} \cup {ScannedPdf, CorruptFile, Unsupported}
JobModels == {"tinyllama:1.1b", "phi3:mini", "dolphin-mistral:7b", "custom:latest"}

\* what a live probe of update_model_info may report: no context length, or one
ProbeResults == {512, 2048, 32768}

FileLists == UNION {[1..k -> JobFiles] : k \in 1..MaxFiles}

\* len(f"Document: {filename}\n\n{text}") for the filename "doc.txt"
DocumentBlockLen(text_len) == 10 + 7 + 2 + text_len

RECURSIVE SumSeq(_)
SumSeq(q) == IF q = <<>> THEN 0 ELSE Head(q) + SumSeq(Tail(q))

\* len(combined_text) of analyze_documents
combined_text_len(document_texts) ==
    2 + 50 + SumSeq([k \in 1..Len(document_texts) |-> DocumentBlockLen(document_texts[k])])
      + 2 * (Len(document_texts) - 1)

\* a size test that already chunks a text of exactly 15000 characters
should_chunk_documents_inclusive(contexts, text_len, model_name) ==
    should_chunk(contexts, text_len, model_name) \/ text_len >= 15000

\* should_chunk_documents
should_chunk_documents(contexts, text_len, model_name) ==
    should_chunk(contexts, text_len, model_name) \/ text_len > 15000

PlainText(n) == [len |-> n, nl |-> {}, dot |-> {}, sp |-> {}]

RECURSIVE plan_outcome(_, _, _)
\* how `for doc in document_texts: chunks = self.chunk_text(...)` ends: with
\* the plan, or in the first chunk_text call that raises or never returns
plan_outcome(contexts, document_texts, model_name) ==
    IF document_texts = <<>> THEN "returned"
    ELSE LET first == chunk_text(contexts, PlainText(Head(document_texts)), model_name).outcome
         IN  IF first # "returned" THEN first
             ELSE plan_outcome(contexts, Tail(document_texts), model_name)

RECURSIVE planned_texts(_, _, _)
\* the texts the planning loop hands to chunk_text, one document after the
\* other, up to the first call that does not return
planned_texts(contexts, document_texts, model_name) ==
    IF document_texts = <<>> THEN <<>>
    ELSE LET first == chunk_text(contexts, PlainText(Head(document_texts)), model_name).outcome
         IN  IF first # "returned" THEN <<Head(document_texts)>>
             ELSE <<Head(document_texts)>>
                      \o planned_texts(contexts, Tail(document_texts), model_name)

\* a service that plans the chunks whatever the decision was
chunk_text_inputs_always(decision, texts) == texts

\* if should_chunk: ... _analyze_documents_chunked(document_texts, ...): the
\* texts chunk_text is invoked on
chunk_text_inputs(decision, texts) == IF decision THEN texts ELSE <<>>

RECURSIVE plan_chunks(_, _, _)
\* all_chunks of _analyze_documents_chunked, as the chunks' lengths
plan_chunks(contexts, document_texts, model_name) ==
    IF document_texts = <<>> THEN <<>>
    ELSE LET spans == chunk_text(contexts, PlainText(Head(document_texts)), model_name).chunks
         IN  [k \in 1..Len(spans) |-> spans[k][2] - spans[k][1]]
             \o plan_chunks(contexts, Tail(document_texts), model_name)

RECURSIVE plan_labels(_, _, _, _)
\* filename and chunk_index of each entry of all_chunks; `doc` numbers the
\* documents from 1
plan_labels(contexts, document_texts, model_name, doc) ==
    IF document_texts = <<>> THEN <<>>
    ELSE LET spans == chunk_text(contexts, PlainText(Head(document_texts)), model_name).chunks
         IN  [k \in 1..Len(spans) |-> [filename |-> doc, chunk_index |-> k - 1]]
             \o plan_labels(contexts, Tail(document_texts), model_name, doc + 1)

\* final_analysis = None
NoAnalysis == [kind |-> "none", parts |-> <<>>]

NoResult == [status |-> "none", chunks_analyzed |-> 0, total_chunks |-> 0, method |-> ""]

JobIdle ==
    [pc |-> "off", model |-> "", files |-> <<>>, file_i |-> 0,
     document_texts |-> <<>>, all_chunks |-> <<>>, prange |-> <<0, 0>>,
     i |-> 0, attempt |-> 0, chunk_analyses |-> <<>>,
     should_chunk |-> "unset", chunk_text_calls |-> <<>>,
     decision_context |-> 0, plan_context |-> 0,
     labels |-> <<>>, analysis_labels |-> <<>>, final_analysis |-> NoAnalysis,
     file_paths |-> <<>>, temp_files |-> {},
     result |-> NoResult, raised |-> ""]

\* file_path = await self.save_uploaded_file(...); file_paths.append(file_path)
\* for the file at position k of the request
save_uploaded_file(j, k) ==
    [j EXCEPT !.file_paths = Append(@, k), !.temp_files = @ \cup {k}]

\* await self._cleanup_temp_files(file_paths)
cleanup_temp_files(j) ==
    [j EXCEPT !.temp_files = @ \ {j.file_paths[k] : k \in 1..Len(j.file_paths)}]

BackendIdle ==
    [unit |-> "none", index |-> 0, issued |-> 0, succeeded |-> FALSE, failures |-> 0,
     in_flight |-> 0, chunk_calls |-> 0, final_calls |-> 0, direct_calls |-> 0]

ConnOff == [pc |-> "off", inbox |-> <<>>, jobs |-> 0, requests |-> 0, client_msgs |-> 0]

CallIdle ==
    [fn |-> "none", model |-> "", base |-> 0, is_chunked |-> FALSE, refreshes |-> 0,
     avg_chunk_size |-> 0, results |-> <<>>]

\* a call to ollama_service.query_ollama for `unit` (for chunk `index` when
\* the unit is "chunk"); issued and succeeded count per unit and index
IssueCall(b, unit, index) ==
    LET same == b.unit = unit /\ b.index = index
    IN  [b EXCEPT !.unit = unit,
                  !.index = index,
                  !.in_flight = @ + 1,
                  !.issued = IF same THEN @ + 1 ELSE 1,
                  !.succeeded = IF same THEN @ ELSE FALSE,
                  !.chunk_calls  = IF unit = "chunk"  THEN @ + 1 ELSE @,
                  !.final_calls  = IF unit = "final"  THEN @ + 1 ELSE @,
                  !.direct_calls = IF unit = "direct" THEN @ + 1 ELSE @]

\* the call in flight returns (ok) or raises (~ok)
CallReturns(b, ok) ==
    [b EXCEPT !.succeeded = @ \/ ok,
              !.in_flight = @ - 1,
              !.failures = IF ok THEN @ ELSE @ + 1]

----------------------------------------------------------------------------
(* WebSocketFileHandler.handle_file_analysis, _handle_document_analysis and *)
(* DocumentService.analyze_documents up to the chunk-or-direct decision.   *)
(* Progress callbacks are delivered in the order they are issued.          *)

Emit(msgs) == sent' = sent \o msgs

\* handle_file_analysis up to the call of analyze_documents
HandleFileAnalysis ==
    /\ job.pc = "start"
    /\ IF \E k \in 1..Len(job.files) : job.files[k].kind = "unsupported"
       THEN \* validate_files raises
            /\ Emit(<<StatusMsg(Whole(5))>>)
            /\ job' = [job EXCEPT !.pc = "raised", !.raised = "unsupported"]
       ELSE /\ Emit(<<StatusMsg(Whole(5)), StatusMsg(Whole(10))>>
                    \o (IF is_small_model(job.model) THEN <<StatusMsg(Whole(12))>> ELSE <<>>)
                    \o <<StatusMsg(Whole(15)), StatusMsg(Whole(20))>>)
            /\ job' = [job EXCEPT !.pc = "registry"]
    /\ UNCHANGED <<call, MODEL_CONTEXTS, ct, stop_event, backend, conn>>

\* ModelRegistry.update_model_info with what the probe reported
update_model_info(contexts, model_name, probe) ==
    IF probe.reported
    THEN [m \in DOMAIN contexts \cup {model_name} |->
             IF m = model_name THEN probe.value ELSE contexts[m]]
    ELSE contexts

Probes == {[reported |-> FALSE, value |-> 0]} \cup
          {[reported |-> TRUE, value |-> v] : v \in ProbeResults}

\* a refresh at every start of analyze_documents
model_is_always_missing(contexts, model_name) == TRUE

\* if model not in ModelRegistry.MODEL_CONTEXTS
model_is_missing(contexts, model_name) == model_name \notin DOMAIN contexts

\* analyze_documents: registry refresh, then the warm-up call is issued
AnalyzeDocuments ==
    /\ job.pc = "registry"
    /\ IF model_is_missing(MODEL_CONTEXTS, job.model)
       THEN \E probe \in Probes :
                MODEL_CONTEXTS' = update_model_info(MODEL_CONTEXTS, job.model, probe)
       ELSE UNCHANGED MODEL_CONTEXTS
    /\ Emit(<<CallbackMsg(Whole(7))>>)
    /\ backend' = [backend EXCEPT !.unit = "warmup"]
    /\ job' = [job EXCEPT !.pc = "warmup"]
    /\ UNCHANGED <<call, ct, stop_event, conn>>

\* _warm_up_model returns; its failure is swallowed
WarmUpReturns ==
    /\ job.pc = "warmup"
    /\ Emit(<<CallbackMsg(Whole(10))>>)
    /\ backend' = [backend EXCEPT !.unit = "none"]
    /\ job' = [job EXCEPT !.pc = "extract", !.file_i = 0, !.document_texts = <<>>]
    /\ UNCHANGED <<call, MODEL_CONTEXTS, ct, stop_event, conn>>

\* one iteration of the extraction loop
ExtractFile ==
    /\ job.pc = "extract"
    /\ job.file_i < Len(job.files)
    /\ LET n == Len(job.files)
           i == job.file_i
           f == job.files[i + 1]
           before == <<CallbackMsg(<<5 * n + 5 * i, n>>),      \* 5 + (i / len(files)) * 5
                       CallbackMsg(<<10 * n + 5 * i, n>>)>>    \* 10 + (i / len(files)) * 5
       IN  CASE f.kind = "text" ->
                  /\ Emit(before)
                  /\ job' = save_uploaded_file(
                                [job EXCEPT !.file_i = i + 1,
                                            !.document_texts = Append(@, f.len)], i + 1)
             [] f.kind = "scanned" ->
                  /\ Emit(before \o <<CallbackMsg(Whole(15))>>)
                  \* return {"status": "image_based_pdf", ...} from inside the try
                  /\ job' = save_uploaded_file(
                                [job EXCEPT !.pc = "returned",
                                    !.result = [NoResult EXCEPT !.status = "image_based_pdf"]],
                                i + 1)
             [] OTHER ->
                  /\ Emit(before)
                  /\ job' = cleanup_temp_files(save_uploaded_file(
                                [job EXCEPT !.pc = "raised", !.raised = "extract_failed"], i + 1))
    /\ UNCHANGED <<call, MODEL_CONTEXTS, ct, stop_event, backend, conn>>

\* three attempts whatever the length
max_direct_attempts_flat(text_len) == 3

max_direct_attempts(text_len) == IF text_len < 10000 THEN 3 ELSE 2

max_chunk_attempts(chunk_len) == IF chunk_len < 5000 THEN 3 ELSE 2

\* the callbacks of _analyze_documents_chunked before its loop
ChunkedPrologue(total_chunks, prange) ==
    <<CallbackMsg(Whole(25)), CallbackMsg(Whole(30))>>
    \o (IF total_chunks > 10 THEN <<CallbackMsg(Whole(prange[1] + 1))>> ELSE <<>>)

\* the callbacks of _analyze_documents_direct before its first call
DirectPrologue == <<CallbackMsg(Whole(25)), CallbackMsg(Whole(30)), CallbackMsg(Whole(50))>>

\* sum(len(chunk) for chunk in all_chunks) // len(all_chunks), 0 without chunks
avg_chunk_size(all_chunks) ==
    IF Len(all_chunks) > 0 THEN SumSeq(all_chunks) \div Len(all_chunks) ELSE 0

\* a check that lets every job through
no_text_extracted_never(document_texts) == FALSE

\* total_extracted_text == 0
no_text_extracted(document_texts) == SumSeq(document_texts) = 0

\* analyze_documents after extraction: the decision, then either the entry
\* into _analyze_documents_chunked or the first call of
\* _analyze_documents_direct
Combine ==
    /\ job.pc = "extract"
    /\ job.file_i = Len(job.files)
    /\ LET text_len == combined_text_len(job.document_texts)
           chunked  == should_chunk_documents(MODEL_CONTEXTS, text_len, job.model)
       IN  IF no_text_extracted(job.document_texts)
           THEN /\ Emit(<<CallbackMsg(Whole(15))>>)
                /\ job' = cleanup_temp_files([job EXCEPT !.pc = "raised", !.raised = "no_text"])
                /\ UNCHANGED backend
           ELSE IF chunked
           THEN \* _analyze_documents_chunked is entered
                /\ Emit(<<CallbackMsg(Whole(15)), CallbackMsg(Whole(20))>>)
                /\ job' = [job EXCEPT !.pc = "decided", !.should_chunk = "chunked",
                                      !.decision_context =
                                          get_context_length(MODEL_CONTEXTS, job.model)]
                /\ UNCHANGED backend
           ELSE /\ Emit(<<CallbackMsg(Whole(15)), CallbackMsg(Whole(20))>> \o DirectPrologue)
                /\ job' = [job EXCEPT !.pc = "direct_inflight", !.should_chunk = "direct",
                                      !.decision_context =
                                          get_context_length(MODEL_CONTEXTS, job.model),
                                      !.chunk_text_calls = chunk_text_inputs(chunked,
                                          planned_texts(MODEL_CONTEXTS, job.document_texts,
                                                        job.model)),
                                      !.attempt = 0]
                /\ backend' = IssueCall(backend, "direct", 0)
    /\ UNCHANGED <<call, MODEL_CONTEXTS, ct, stop_event, conn>>

\* _analyze_documents_chunked up to its chunk loop: the planning loop over the
\* documents, reached from the decision without an await in between
PlanChunks ==
    /\ job.pc = "decided"
    /\ \E all_chunks \in {plan_chunks(MODEL_CONTEXTS, job.document_texts, job.model)} :
       \E labels \in {plan_labels(MODEL_CONTEXTS, job.document_texts, job.model, 1)} :
       \E prange \in {calculate_progress_range(Len(all_chunks), job.model,
                                                avg_chunk_size(all_chunks))} :
       \E planned \in {plan_outcome(MODEL_CONTEXTS, job.document_texts, job.model)} :
       \E calls \in {chunk_text_inputs(job.should_chunk = "chunked",
                          planned_texts(MODEL_CONTEXTS, job.document_texts, job.model))} :
       \E plan_context \in {get_context_length(MODEL_CONTEXTS, job.model)} :
           IF planned = "never_returns"
           THEN \* chunk_text loops for ever, called without an await
                /\ Emit(<<CallbackMsg(Whole(25))>>)
                /\ job' = [job EXCEPT !.pc = "chunk_text", !.plan_context = plan_context,
                                      !.chunk_text_calls = calls]
           ELSE IF planned = "index_error"
           THEN /\ Emit(<<CallbackMsg(Whole(25))>>)
                /\ job' = cleanup_temp_files([job EXCEPT !.pc = "raised", !.plan_context = plan_context,
                                      !.chunk_text_calls = calls,
                                      !.raised = "index_error"])
           ELSE /\ Emit(ChunkedPrologue(Len(all_chunks), prange))
                /\ job' = [job EXCEPT !.pc = "loop", !.plan_context = plan_context,
                                      !.chunk_text_calls = calls,
                                      !.all_chunks = all_chunks,
                                      !.labels = labels,
                                      !.prange = prange, !.i = 0,
                                      !.chunk_analyses = <<>>,
                                      !.analysis_labels = <<>>]
    /\ UNCHANGED <<call, MODEL_CONTEXTS, ct, stop_event, backend, conn>>

----------------------------------------------------------------------------
(* DocumentService._analyze_documents_chunked: the chunk loop              *)

\* int(progress_start + k * progress_per_chunk + tenths/10 * progress_per_chunk)
chunk_progress_at(prange, total_chunks, k, tenths) ==
    prange[1] + (((10 * k + tenths) * (prange[2] - prange[1]))
                    \div (10 * Max(total_chunks, 1)))

\* a partial result that counts the chunk the loop was about to start
partial_result_miscounted(chunk_analyses, total_chunks) ==
    [status |-> "partial", chunks_analyzed |-> Len(chunk_analyses) + 1,
     total_chunks |-> total_chunks, method |-> "chunked_partial"]

\* the dict returned when the stop event is found set with results in hand
partial_result(chunk_analyses, total_chunks) ==
    [status |-> "partial", chunks_analyzed |-> Len(chunk_analyses),
     total_chunks |-> total_chunks, method |-> "chunked_partial"]

\* the top of the loop body for chunk i: the stop check, then the progress
\* callbacks and the first attempt
\* a loop that stops one chunk short
loop_exhausted_early(i, all_chunks) == i >= Len(all_chunks) - 1

\* for i, chunk in enumerate(all_chunks) has no element left
loop_exhausted(i, all_chunks) == i >= Len(all_chunks)

ChunkCheck ==
    /\ job.pc = "loop"
    /\ ~loop_exhausted(job.i, job.all_chunks)
    /\ LET total_chunks == Len(job.all_chunks)
       IN  IF stop_event
           THEN /\ IF job.chunk_analyses # <<>>
                   THEN job' = cleanup_temp_files([job EXCEPT !.pc = "returned",
                                  !.result = partial_result(job.chunk_analyses, total_chunks)])
                   ELSE job' = cleanup_temp_files([job EXCEPT !.pc = "raised", !.raised = "stopped"])
                /\ UNCHANGED <<sent, backend>>
           ELSE /\ Emit(<<CallbackMsg(Whole(chunk_progress_at(job.prange, total_chunks, job.i, 0)))>>
                        \o (IF total_chunks > 10
                            THEN <<CallbackMsg(Whole(chunk_progress_at(job.prange, total_chunks, job.i, 3)))>>
                            ELSE <<>>))
                /\ backend' = IssueCall(backend, "chunk", job.i)
                /\ job' = [job EXCEPT !.pc = "chunk_inflight", !.attempt = 0]
    /\ UNCHANGED <<call, MODEL_CONTEXTS, ct, stop_event, conn>>

\* a retry test that is off by one: `attempt < max_attempts` lets the loop
\* go round once more than range(max_attempts) does
after_attempt_unbounded(ok, attempt, max_attempts) ==
    IF ok THEN "break"
    ELSE IF attempt < max_attempts THEN "retry"
    ELSE "exhausted"

\* what the body of `for attempt in range(max_attempts)` does with the outcome
\* of one call: leave the loop with the response, sleep and try again, or
\* (last attempt) take the except branch's else
after_attempt(ok, attempt, max_attempts) ==
    IF ok THEN "break"
    ELSE IF attempt < max_attempts - 1 THEN "retry"
    ELSE "exhausted"

\* `analysis` left at None when the last attempt fails
chunk_analysis_unset(ok) == IF ok THEN "analysis" ELSE "none"

\* `analysis` after the attempt loop: the response, or the fallback text of
\* the last except branch
chunk_analysis(ok) == IF ok THEN "analysis" ELSE "fallback"

\* the backend may fail a call only within the failure budget
BackendMay(ok) == ok \/ backend.failures < MaxFailures

\* the plan taken back to front
current_chunk_reversed(labels, i) == labels[Len(labels) - i]

\* for i, chunk in enumerate(all_chunks): the chunk of iteration i
current_chunk(labels, i) == labels[i + 1]

\* a loop that throws the result of the chunk away when the stop event was set
\* during its call
RecordChunkUnlessStopped(analysis) ==
    /\ UNCHANGED sent
    /\ job' = [job EXCEPT !.pc = "loop", !.i = @ + 1,
                          !.chunk_analyses = IF stop_event THEN @ ELSE Append(@, analysis),
                          !.analysis_labels = IF stop_event THEN @
                                              ELSE Append(@, job.labels[job.i + 1])]

\* chunk_analyses.append(...) and the progress callback after the chunk
RecordChunk(analysis) ==
    /\ Emit(<<CallbackMsg(Whole(chunk_progress_at(job.prange, Len(job.all_chunks), job.i + 1, 0)))>>)
    /\ job' = [job EXCEPT !.pc = "loop", !.i = @ + 1,
                          !.chunk_analyses = Append(@, analysis),
                          !.analysis_labels = Append(@, current_chunk(job.labels, job.i))]

\* the call for chunk i returns or raises
ChunkCallReturns ==
    /\ job.pc = "chunk_inflight"
    /\ \E ok \in BOOLEAN :
          /\ BackendMay(ok)
          /\ backend' = CallReturns(backend, ok)
          /\ LET next == after_attempt(ok, job.attempt,
                                       max_chunk_attempts(job.all_chunks[job.i + 1]))
             IN  CASE next \in {"break", "exhausted"} -> RecordChunk(chunk_analysis(ok))
                   [] OTHER ->
                        /\ job' = [job EXCEPT !.pc = "chunk_sleep"]
                        /\ UNCHANGED sent
    /\ UNCHANGED <<call, MODEL_CONTEXTS, ct, stop_event, conn>>

\* asyncio.sleep(1) is over: the next attempt of the same chunk
ChunkRetry ==
    /\ job.pc = "chunk_sleep"
    /\ backend' = IssueCall(backend, "chunk", job.i)
    /\ job' = [job EXCEPT !.pc = "chunk_inflight", !.attempt = @ + 1]
    /\ UNCHANGED <<call, MODEL_CONTEXTS, ct, stop_event, sent, conn>>

----------------------------------------------------------------------------
(* _analyze_documents_chunked: the final synthesis                         *)

MaxFinalAttempts == 3

\* after the loop: the combined analyses and the first synthesis call
StartSynthesis ==
    /\ job.pc = "loop"
    /\ loop_exhausted(job.i, job.all_chunks)
    /\ Emit(<<CallbackMsg(Whole(85)), CallbackMsg(Whole(90))>>)
    /\ backend' = IssueCall(backend, "final", 0)
    /\ job' = [job EXCEPT !.pc = "final_inflight", !.attempt = 0]
    /\ UNCHANGED <<call, MODEL_CONTEXTS, ct, stop_event, conn>>

success_result(chunks_analyzed, method) ==
    [status |-> "success", chunks_analyzed |-> chunks_analyzed,
     total_chunks |-> 0, method |-> method]

\* combined_analyses: "From {filename} (Chunk {chunk_index + 1}):\n{analysis}"
\* for each entry of chunk_analyses, in order
combined_analyses(analysis_labels, chunk_analyses) ==
    [k \in 1..Len(chunk_analyses) |->
        [label |-> analysis_labels[k], analysis |-> chunk_analyses[k]]]

\* a fallback summary that leaves the chunk analyses out
final_fallback_bare(analysis_labels, chunk_analyses) ==
    [kind |-> "fallback", parts |-> <<>>]

\* final_analysis when the last synthesis attempt failed: the fallback text
\* wrapped around combined_analyses
final_fallback(analysis_labels, chunk_analyses) ==
    [kind |-> "fallback", parts |-> combined_analyses(analysis_labels, chunk_analyses)]

\* final_analysis after the attempt loop: the model's response, or the fallback
final_analysis(ok, analysis_labels, chunk_analyses) ==
    IF ok THEN [kind |-> "response", parts |-> <<>>]
    ELSE final_fallback(analysis_labels, chunk_analyses)

FinalCallReturns ==
    /\ job.pc = "final_inflight"
    /\ \E ok \in BOOLEAN :
          /\ BackendMay(ok)
          /\ backend' = CallReturns(backend, ok)
          /\ IF after_attempt(ok, job.attempt, MaxFinalAttempts) = "retry"
             THEN /\ job' = [job EXCEPT !.pc = "final_sleep"]
                  /\ UNCHANGED sent
             ELSE \* the response, or the fallback summary
                  /\ Emit(<<CallbackMsg(Whole(100))>>)
                  /\ job' = cleanup_temp_files([job EXCEPT !.pc = "returned",
                                !.final_analysis =
                                    final_analysis(ok, job.analysis_labels, job.chunk_analyses),
                                !.result = success_result(Len(job.all_chunks), "chunked")])
    /\ UNCHANGED <<call, MODEL_CONTEXTS, ct, stop_event, conn>>

FinalRetry ==
    /\ job.pc = "final_sleep"
    /\ backend' = IssueCall(backend, "final", 0)
    /\ job' = [job EXCEPT !.pc = "final_inflight", !.attempt = @ + 1]
    /\ UNCHANGED <<call, MODEL_CONTEXTS, ct, stop_event, sent, conn>>

----------------------------------------------------------------------------
(* DocumentService._analyze_documents_direct                               *)

DirectCallReturns ==
    /\ job.pc = "direct_inflight"
    /\ \E ok \in BOOLEAN :
          /\ BackendMay(ok)
          /\ backend' = CallReturns(backend, ok)
          /\ LET next == after_attempt(ok, job.attempt,
                            max_direct_attempts(combined_text_len(job.document_texts)))
             IN  CASE next = "break" ->
                        /\ Emit(<<CallbackMsg(Whole(100))>>)
                        /\ job' = cleanup_temp_files([job EXCEPT !.pc = "returned",
                                      !.result = success_result(0, "direct")])
                   [] next = "exhausted" ->       \* raise e
                        /\ job' = cleanup_temp_files([job EXCEPT !.pc = "raised", !.raised = "inference_failed"])
                        /\ UNCHANGED sent
                   [] OTHER ->
                        /\ job' = [job EXCEPT !.pc = "direct_sleep"]
                        /\ UNCHANGED sent
    /\ UNCHANGED <<call, MODEL_CONTEXTS, ct, stop_event, conn>>

DirectRetry ==
    /\ job.pc = "direct_sleep"
    /\ backend' = IssueCall(backend, "direct", 0)
    /\ job' = [job EXCEPT !.pc = "direct_inflight", !.attempt = @ + 1]
    /\ UNCHANGED <<call, MODEL_CONTEXTS, ct, stop_event, sent, conn>>

----------------------------------------------------------------------------
(* Back in the callers: _handle_document_analysis after analyze_documents  *)
(* returned, and the except clauses of _handle_document_analysis,          *)
(* handle_file_analysis and websocket_endpoint when it raised.             *)

\* lengths of the analysis text the handler streams back
AnalysisLens == {0, 250}

\* "stopped by user request" in str(e)
IsStopError(raised) == raised = "stopped"

HandlerDeliver ==
    /\ job.pc = "returned"
    /\ IF job.result.status = "image_based_pdf"
       THEN Emit(<<ClearProgressMsg, ChoiceMsg>>)
       ELSE \E len \in AnalysisLens :
               /\ job.result.status = "partial" => len > 0
               /\ Emit(<<IF job.result.status = "partial"
                         THEN StatusMsg(Whole(100)) ELSE StatusMsg(Whole(70))>>
                       \o <<ClearProgressMsg>>
                       \o StreamMsgs(len, 0)
                       \o <<AnalysisCompleteMsg(job.result.method)>>)
    /\ job' = [job EXCEPT !.pc = "finished"]
    /\ UNCHANGED <<call, MODEL_CONTEXTS, ct, stop_event, backend, conn>>

\* the messages the three except clauses send for an exception
ExceptMsgs(raised) ==
    IF IsStopError(raised)
    THEN \* _handle_document_analysis swallows it and reports a completion
         <<StatusMsg(Whole(100)), AnalysisCompleteMsg("partial")>>
    ELSE \* re-raised: handle_file_analysis sends an error and re-raises,
         \* websocket_endpoint sends another
         <<ErrorMsg("File analysis failed"), ErrorMsg("Analysis failed")>>

HandlerExcept ==
    /\ job.pc = "raised"
    /\ Emit(ExceptMsgs(job.raised))
    /\ job' = [job EXCEPT !.pc = "finished"]
    /\ UNCHANGED <<call, MODEL_CONTEXTS, ct, stop_event, backend, conn>>

JobStep ==
    \/ HandleFileAnalysis \/ AnalyzeDocuments \/ WarmUpReturns \/ ExtractFile
    \/ Combine \/ PlanChunks \/ ChunkCheck \/ ChunkCallReturns \/ ChunkRetry
    \/ StartSynthesis \/ FinalCallReturns \/ FinalRetry
    \/ DirectCallReturns \/ DirectRetry
    \/ HandlerDeliver \/ HandlerExcept

----------------------------------------------------------------------------
(* Spec: one job whose stop_event belongs to a concurrent task.  asyncio   *)
(* runs that task only while the job is suspended in an await.             *)

\* a job that could be suspended at any of its positions
SuspendedAnywhere == job.pc \notin {"off", "idle", "finished"}

Suspended ==
    job.pc \in {"start", "registry", "warmup", "extract",
                "chunk_inflight", "chunk_sleep", "final_inflight", "final_sleep",
                "direct_inflight", "direct_sleep", "returned", "raised"}

\* stop_event.set() by the event's owner
SetStop ==
    /\ Suspended
    /\ ~stop_event
    /\ stop_event' = TRUE
    /\ UNCHANGED <<call, MODEL_CONTEXTS, ct, job, sent, backend, conn>>

NewJob(model, files) == [JobIdle EXCEPT !.pc = "start", !.model = model, !.files = files]

Init ==
    /\ MODEL_CONTEXTS = InitialModelContexts
    /\ ct = CtIdle
    /\ \E model \in JobModels, files \in FileLists : job = NewJob(model, files)
    /\ stop_event = FALSE
    /\ sent = <<>>
    /\ backend = BackendIdle
    /\ conn = ConnOff
    /\ call = CallIdle

Next == JobStep \/ SetStop

Spec == Init /\ [][Next]_vars

----------------------------------------------------------------------------
(* SpecWS: websocket_endpoint.  One coroutine reads the client's messages  *)
(* and runs a file-analysis job inline (await handle_file_analysis), so it *)
(* reads the next message only after the job has finished.                 *)

MaxClientMsgs == 3   \* messages the client sends on one connection
MaxJobs == 2         \* file-analysis requests among them

WSModels == {"tinyllama:1.1b"}
WSFileLists == {<<TextFile(300)>>, <<TextFile(7000)>>, <<CorruptFile>>}

JobRunning == job.pc \notin {"off", "idle", "finished"}

\* cancellation checks (the stop test at the top of the chunk loop) the
\* running job has passed so far
ChecksPassed ==
    IF job.pc \in {"chunk_inflight", "chunk_sleep"} THEN job.i + 1
    ELSE IF job.pc \in {"start", "registry", "warmup", "extract"} THEN 0
    ELSE job.i

\* the client sends {"type": "stop"}; the message remembers which job was
\* running and how far it was
ClientSendStop ==
    /\ conn.pc # "off"
    /\ conn.client_msgs < MaxClientMsgs
    /\ conn' = [conn EXCEPT
                  !.client_msgs = @ + 1,
                  !.inbox = Append(@, [type |-> "stop",
                                       job |-> IF JobRunning THEN conn.jobs ELSE 0,
                                       checks |-> ChecksPassed,
                                       model |-> "", files |-> <<>>])]
    /\ UNCHANGED <<call, MODEL_CONTEXTS, ct, job, stop_event, sent, backend>>

\* the client sends a message with files
ClientSendFiles ==
    /\ conn.pc # "off"
    /\ conn.client_msgs < MaxClientMsgs
    /\ conn.requests < MaxJobs
    /\ \E model \in WSModels, files \in WSFileLists :
          conn' = [conn EXCEPT
                     !.client_msgs = @ + 1,
                     !.requests = @ + 1,
                     !.inbox = Append(@, [type |-> "files", job |-> 0, checks |-> 0,
                                          model |-> model, files |-> files])]
    /\ UNCHANGED <<call, MODEL_CONTEXTS, ct, job, stop_event, sent, backend>>

\* an endpoint that starts the analysis with the flag as it finds it
stop_event_kept(flag) == flag

\* stop_analysis_event.clear() before handle_file_analysis is called
stop_event_cleared(flag) == FALSE

\* one iteration of the receive loop: receive_text, then the stop branch or
\* the file-analysis branch up to the call of handle_file_analysis
Receive ==
    /\ conn.pc = "receive"
    /\ conn.inbox # <<>>
    /\ LET m == Head(conn.inbox)
       IN  IF m.type = "stop"
           THEN /\ stop_event' = TRUE
                /\ conn' = [conn EXCEPT !.inbox = Tail(@)]
                /\ UNCHANGED <<job, backend, sent>>
           ELSE /\ stop_event' = stop_event_cleared(stop_event)
                /\ conn' = [conn EXCEPT !.inbox = Tail(@), !.pc = "busy", !.jobs = @ + 1]
                /\ job' = NewJob(m.model, m.files)
                /\ backend' = BackendIdle
                /\ sent' = <<>>
    /\ UNCHANGED <<call, MODEL_CONTEXTS, ct>>

\* handle_file_analysis has returned or raised and its except clauses have
\* run: `continue`, back to receive_text
EndpointContinue ==
    /\ conn.pc = "busy"
    /\ job.pc = "finished"
    /\ conn' = [conn EXCEPT !.pc = "receive"]
    /\ job' = [job EXCEPT !.pc = "idle"]
    /\ UNCHANGED <<call, MODEL_CONTEXTS, ct, stop_event, sent, backend>>

InitWS ==
    /\ MODEL_CONTEXTS = InitialModelContexts
    /\ ct = CtIdle
    /\ job = [JobIdle EXCEPT !.pc = "idle"]
    /\ stop_event = FALSE
    /\ sent = <<>>
    /\ backend = BackendIdle
    /\ conn = [ConnOff EXCEPT !.pc = "receive"]
    /\ call = CallIdle

NextWS == JobStep \/ ClientSendStop \/ ClientSendFiles \/ Receive \/ EndpointContinue

SpecWS == InitWS /\ [][NextWS]_vars

----------------------------------------------------------------------------
(* SpecReg: one job for a model the shipped registry does not hold, while   *)
(* other analyze_documents jobs for the same model run on the same event   *)
(* loop.  Each of them found the model missing and awaits                  *)
(* update_model_info; its write lands while this job is suspended.         *)

MaxRefreshes == 2    \* writes of other jobs during one job

RegModels == {"custom:latest"}
RegFileLists == {<<TextFile(300)>>, <<TextFile(7000)>>, <<TextFile(7000), TextFile(10001)>>,
                 <<CorruptFile>>}

\* cls.MODEL_CONTEXTS[model_name] = context_length in another job
OtherJobRefreshes ==
    /\ Suspended
    /\ job.pc \notin {"returned", "raised"}
    /\ call.refreshes < MaxRefreshes
    /\ \E v \in ProbeResults :
          MODEL_CONTEXTS' = update_model_info(MODEL_CONTEXTS, job.model,
                                              [reported |-> TRUE, value |-> v])
    /\ call' = [call EXCEPT !.refreshes = @ + 1]
    /\ UNCHANGED <<ct, job, stop_event, sent, backend, conn>>

InitReg ==
    /\ MODEL_CONTEXTS = InitialModelContexts
    /\ ct = CtIdle
    /\ \E model \in RegModels, files \in RegFileLists : job = NewJob(model, files)
    /\ stop_event = FALSE
    /\ sent = <<>>
    /\ backend = BackendIdle
    /\ conn = ConnOff
    /\ call = [CallIdle EXCEPT !.fn = "update_model_info"]

NextReg == JobStep \/ OtherJobRefreshes

SpecReg == InitReg /\ [][NextReg]_vars

----------------------------------------------------------------------------
(* SpecImg: ImageService.analyze_images, one image-analysis job.  Here     *)
(* `job` holds the state of that job; stop_event is set by the receive     *)
(* loop while the job is suspended in an await.                            *)

MaxImages == 2       \* images per request
PARTS == 4           \* split_image(image_path, grid_size=2)
IMAGE_ATTEMPTS == 2  \* for attempt in range(2)

\* should_scale_image, should_split_image of one image
ImageKinds == {[should_scale |-> FALSE, should_split |-> FALSE],
               [should_scale |-> TRUE,  should_split |-> FALSE],
               [should_scale |-> TRUE,  should_split |-> TRUE]}

\* analyze_prompt_intent(prompt)
Intents == {[needs_global_analysis |-> TRUE,  needs_detail_analysis |-> TRUE],
            [needs_global_analysis |-> FALSE, needs_detail_analysis |-> TRUE],
            [needs_global_analysis |-> TRUE,  needs_detail_analysis |-> FALSE]}

ImageLists == UNION {[1..k -> ImageKinds] : k \in 1..MaxImages}

STOPPED == "Analysis stopped by user request"

NewImageJob(images, intent) ==
    [pc |-> "saving", images |-> images, intent |-> intent,
     i |-> 0, stage |-> "", part |-> 0, attempt |-> 0,
     analyses |-> <<>>, analysis |-> <<>>, stop_seen |-> <<>>,
     status |-> "none", raised |-> ""]

\* the rest of analyze_images once image_analysis of image i is returned:
\* append it, sleep before the next image, or combine and return success
image_done(j, analysis) ==
    LET more == [j EXCEPT !.analyses = Append(@, analysis), !.analysis = <<>>]
    IN  IF j.i < Len(j.images) - 1
        THEN [more EXCEPT !.pc = "pause"]
        ELSE [more EXCEPT !.pc = "returned", !.status = "success"]

\* if stop_event and stop_event.is_set(): at a check of _analyze_single_image
stop_found(j, stop, check) == stop

\* raise Exception(STOPPED) inside the try of _analyze_single_image: its
\* `except Exception as e` stores "Analysis error: ..." and the image's
\* analysis is returned
stop_in_single_image(j, check) ==
    image_done([j EXCEPT !.stop_seen = Append(@, check)], <<"Analysis error: " \o STOPPED>>)

\* the stage after the direct analysis, or after the last part: return
after_stages(j) == image_done(j, j.analysis)

\* for j, part_path in enumerate(parts): the stop check, then the first
\* attempt for the part
begin_part(j, stop) ==
    IF j.part = PARTS THEN after_stages(j)
    ELSE IF stop_found(j, stop, "between_parts") THEN stop_in_single_image(j, "between_parts")
    ELSE [j EXCEPT !.pc = "inflight", !.stage = "detail", !.attempt = 0]

\* the detailed analysis, if the image is split and the prompt asks for it
begin_detail(j, stop) ==
    IF j.images[j.i + 1].should_split /\ j.intent.needs_detail_analysis
    THEN begin_part([j EXCEPT !.part = 0], stop)
    ELSE IF ~j.images[j.i + 1].should_scale /\ ~j.images[j.i + 1].should_split
    THEN IF stop_found(j, stop, "before_attempt")
         THEN stop_in_single_image(j, "before_attempt")
         ELSE [j EXCEPT !.pc = "inflight", !.stage = "direct", !.attempt = 0]
    ELSE after_stages(j)

\* _analyze_single_image from its start
begin_image(j, stop) ==
    IF j.images[j.i + 1].should_scale /\ j.intent.needs_global_analysis
    THEN IF stop_found(j, stop, "before_attempt")
         THEN stop_in_single_image(j, "before_attempt")
         ELSE [j EXCEPT !.pc = "inflight", !.stage = "global", !.attempt = 0]
    ELSE begin_detail(j, stop)

\* top of `for i, (image_path, image_info) in enumerate(...)`: the stop check
\* of analyze_images, whose raise reaches the caller
image_loop(j, stop) ==
    IF stop
    THEN [j EXCEPT !.pc = "raised", !.raised = STOPPED,
                   !.stop_seen = Append(@, "between_images")]
    ELSE begin_image(j, stop)

\* the images are saved (await save_uploaded_image); the loop starts
ImagesSaved ==
    /\ job.pc = "saving"
    /\ job' = image_loop(job, stop_event)
    /\ UNCHANGED <<call, MODEL_CONTEXTS, ct, stop_event, sent, backend, conn>>

\* await query_vision_model returns or raises
VisionCallReturns ==
    /\ job.pc = "inflight"
    /\ \E ok \in BOOLEAN :
         LET text == IF ok THEN <<job.stage>> ELSE <<job.stage \o " failed">>
             done == [job EXCEPT !.analysis = @ \o text]
         IN  IF ~ok /\ job.attempt < IMAGE_ATTEMPTS - 1
             THEN job' = [job EXCEPT !.pc = "sleep"]
             ELSE IF job.stage = "global" THEN job' = begin_detail(done, stop_event)
             ELSE IF job.stage = "detail"
             THEN job' = begin_part([done EXCEPT !.part = @ + 1], stop_event)
             ELSE job' = after_stages(done)
    /\ UNCHANGED <<call, MODEL_CONTEXTS, ct, stop_event, sent, backend, conn>>

\* await asyncio.sleep(2) ends: the second attempt, with the stop check the
\* global and the direct analysis make before each attempt
VisionRetry ==
    /\ job.pc = "sleep"
    /\ job' = IF job.stage # "detail" /\ stop_found(job, stop_event, "before_attempt")
              THEN stop_in_single_image(job, "before_attempt")
              ELSE [job EXCEPT !.pc = "inflight", !.attempt = @ + 1]
    /\ UNCHANGED <<call, MODEL_CONTEXTS, ct, stop_event, sent, backend, conn>>

\* await asyncio.sleep(1) between two images ends
NextImage ==
    /\ job.pc = "pause"
    /\ job' = image_loop([job EXCEPT !.i = @ + 1], stop_event)
    /\ UNCHANGED <<call, MODEL_CONTEXTS, ct, stop_event, sent, backend, conn>>

\* stop_analysis_event.set() while the job is suspended in one of its awaits
ImgSetStop ==
    /\ job.pc \in {"saving", "inflight", "sleep", "pause"}
    /\ ~stop_event
    /\ stop_event' = TRUE
    /\ UNCHANGED <<call, MODEL_CONTEXTS, ct, job, sent, backend, conn>>

InitImg ==
    /\ MODEL_CONTEXTS = InitialModelContexts
    /\ ct = CtIdle
    /\ \E images \in ImageLists, intent \in Intents : job = NewImageJob(images, intent)
    /\ stop_event = FALSE
    /\ sent = <<>>
    /\ backend = BackendIdle
    /\ conn = ConnOff
    /\ call = CallIdle

NextImg == ImagesSaved \/ VisionCallReturns \/ VisionRetry \/ NextImage \/ ImgSetStop

SpecImg == InitImg /\ [][NextImg]_vars

----------------------------------------------------------------------------
(* SpecFn: a pure function is called a few times, with the registry and    *)
(* the settings as they are; each call records its argument and result.    *)

MaxCalls == 2        \* calls recorded in one behaviour

FnModels == {"tinyllama:1.1b", "llama3.2:3b", "phi3:mini", "dolphin-mistral:7b",
             "custom:latest"}

\* settings.document_timeout
FnBaseTimeouts == {30, 100, 600, 1200}

\* len(combined_text) around the thresholds of should_chunk_documents
DecisionLens == {0, 4147, 4148, 10291, 10292, 14999, 15000, 15001, 22579, 22580}

\* text_length around the thresholds of calculate_timeout
TimeoutLens == {0, 499, 500, 999, 1000, 4999, 5000, 14999, 15000, 20000, 20001,
                29999, 30000, 49999, 50000, 100000}

\* the registry as shipped, or after update_model_info learned a model
FnRegistries ==
    {InitialModelContexts} \cup
    {update_model_info(InitialModelContexts, "custom:latest", probe) : probe \in Probes}

\* should_chunk_documents(combined_text, model_name) is called
CallShouldChunkDocuments ==
    /\ call.fn = "should_chunk_documents"
    /\ Len(call.results) < MaxCalls
    /\ \E text_len \in DecisionLens :
          call' = [call EXCEPT !.results = Append(@,
                     [arg |-> text_len,
                      value |-> should_chunk_documents(MODEL_CONTEXTS, text_len, call.model)])]
    /\ UNCHANGED <<MODEL_CONTEXTS, ct, job, stop_event, sent, backend, conn>>

\* calculate_timeout(text_length, is_chunked, model_name) is called
CallCalculateTimeout ==
    /\ call.fn = "calculate_timeout"
    /\ Len(call.results) < MaxCalls
    /\ \E text_length \in TimeoutLens :
          call' = [call EXCEPT !.results = Append(@,
                     [arg |-> text_length,
                      value |-> calculate_timeout(call.base, text_length,
                                                  call.is_chunked, call.model)])]
    /\ UNCHANGED <<MODEL_CONTEXTS, ct, job, stop_event, sent, backend, conn>>

\* await ModelRegistry.update_model_info(model_name): a live refresh
CallUpdateModelInfo ==
    /\ call.fn = "get_context_length"
    /\ call.refreshes < MaxCalls
    /\ \E m \in FnModels, probe \in Probes :
          MODEL_CONTEXTS' = update_model_info(MODEL_CONTEXTS, m, probe)
    /\ call' = [call EXCEPT !.refreshes = @ + 1]
    /\ UNCHANGED <<ct, job, stop_event, sent, backend, conn>>

\* ModelRegistry.get_context_length(model_name) is called
CallGetContextLength ==
    /\ call.fn = "get_context_length"
    /\ Len(call.results) < MaxCalls
    /\ \E m \in FnModels :
          call' = [call EXCEPT !.results = Append(@,
                     [arg |-> m, value |-> get_context_length(MODEL_CONTEXTS, m)])]
    /\ UNCHANGED <<MODEL_CONTEXTS, ct, job, stop_event, sent, backend, conn>>

\* total_chunks around the thresholds of calculate_progress_range
ProgressCounts == {1, 2, 3, 5, 6, 10, 11, 20, 21, 50, 51, 70, 100, 101, 300}

\* avg_chunk_size below 1000, between, and above 3000
ProgressAvgSizes == {828, 1657, 3386}

\* calculate_progress_range(total_chunks, model_name, avg_chunk_size) is called
CallCalculateProgressRange ==
    /\ call.fn = "calculate_progress_range"
    /\ Len(call.results) < MaxCalls
    /\ \E total_chunks \in ProgressCounts :
          call' = [call EXCEPT !.results = Append(@,
                     [arg |-> total_chunks,
                      value |-> calculate_progress_range(total_chunks, call.model,
                                                         call.avg_chunk_size)])]
    /\ UNCHANGED <<MODEL_CONTEXTS, ct, job, stop_event, sent, backend, conn>>

InitFn ==
    /\ MODEL_CONTEXTS \in FnRegistries
    /\ ct = CtIdle
    /\ job = JobIdle
    /\ stop_event = FALSE
    /\ sent = <<>>
    /\ backend = BackendIdle
    /\ conn = ConnOff
    /\ \/ \E m \in FnModels :
             call = [CallIdle EXCEPT !.fn = "should_chunk_documents", !.model = m]
       \/ call = [CallIdle EXCEPT !.fn = "get_context_length"]
       \/ \E m \in FnModels, a \in ProgressAvgSizes :
             call = [CallIdle EXCEPT !.fn = "calculate_progress_range", !.model = m,
                                     !.avg_chunk_size = a]
       \/ \E m \in FnModels, b \in FnBaseTimeouts, c \in BOOLEAN :
             call = [CallIdle EXCEPT !.fn = "calculate_timeout", !.model = m,
                                     !.base = b, !.is_chunked = c]

NextFn ==
    \/ CallShouldChunkDocuments \/ CallCalculateTimeout
    \/ CallUpdateModelInfo \/ CallGetContextLength
    \/ CallCalculateProgressRange

SpecFn == InitFn /\ [][NextFn]_vars

----------------------------------------------------------------------------
(* Properties of the job, checked under Spec.                              *)

\* C1: for every chunk, whatever the backend does, the calls issued for that
\* chunk number at most max_chunk_attempts (3 for a chunk text shorter than
\* 5000 characters, else 2), and no call is in flight for a chunk after one
\* of its calls succeeded.
C1_RetryBound ==
    backend.unit = "chunk" =>
        /\ backend.issued <= max_chunk_attempts(job.all_chunks[backend.index + 1])
        /\ (job.pc \in {"chunk_inflight", "chunk_sleep"} => ~backend.succeeded)

\* all three attempts of a short chunk were issued and failed, and the loop
\* has moved on
C1_Witness ==
    /\ job.pc = "loop"
    /\ backend.unit = "chunk"
    /\ max_chunk_attempts(job.all_chunks[backend.index + 1]) = 3
    /\ backend.issued = 3
    /\ ~backend.succeeded

\* C2: a chunk whose attempts all fail is recorded with the fallback text and
\* the loop moves on; a job that recorded a fallback raises nothing, and
\* unless it was stopped it returns status "success" after a synthesis call,
\* with chunks_analyzed equal to the number of planned chunks, one analysis
\* recorded per chunk.
C2_FallbackThenSuccess ==
    /\ (job.pc = "loop" /\ backend.unit = "chunk" /\ ~backend.succeeded) =>
          /\ job.i = backend.index + 1
          /\ Len(job.chunk_analyses) = job.i
          /\ job.chunk_analyses[job.i] = "fallback"
    /\ \A k \in 1..Len(job.chunk_analyses) :
          job.chunk_analyses[k] \in {"analysis", "fallback"}
    /\ (/\ job.pc \in {"returned", "raised", "finished"}
        /\ \E k \in 1..Len(job.chunk_analyses) : job.chunk_analyses[k] = "fallback") =>
          /\ job.raised = ""
          /\ job.result.status \in {"success", "partial"}
          /\ job.result.status = "partial" => stop_event
          /\ job.result.status = "success" =>
                /\ job.result = success_result(Len(job.all_chunks), "chunked")
                /\ Len(job.chunk_analyses) = Len(job.all_chunks)
                /\ backend.final_calls >= 1

\* a 5-chunk job whose third chunk failed every attempt ended in success
C2_Witness ==
    /\ job.pc = "finished"
    /\ ~stop_event
    /\ job.chunk_analyses = <<"analysis", "analysis", "fallback", "analysis", "analysis">>
    /\ job.result = success_result(5, "chunked")
    /\ sent[Len(sent)] = AnalysisCompleteMsg("chunked")

\* C3: a chunked job that ends with k analyses of n planned chunks,
\* 0 < k < n, was stopped, raised nothing, and returned status "partial"
\* with chunks_analyzed = k and total_chunks = n.
C3_PartialCounts ==
    (/\ job.pc \in {"returned", "raised", "finished"}
     /\ 0 < Len(job.chunk_analyses)
     /\ Len(job.chunk_analyses) < Len(job.all_chunks)) =>
        /\ stop_event
        /\ job.raised = ""
        /\ job.result.status = "partial"
        /\ job.result.chunks_analyzed = Len(job.chunk_analyses)
        /\ job.result.total_chunks = Len(job.all_chunks)

\* a job stopped after 2 of its 5 chunks returned the partial result
C3_Witness ==
    /\ job.pc = "returned"
    /\ stop_event
    /\ Len(job.all_chunks) = 5
    /\ Len(job.chunk_analyses) = 2
    /\ job.result.status = "partial"

\* C4: a chunked job stopped before any chunk completed ends as an error:
\* the caller is sent an error message and no completion message.
C4_StoppedEarlyIsError ==
    (job.pc = "finished" /\ IsStopError(job.raised)) =>
        /\ \E k \in 1..Len(sent) : sent[k].type = "error"
        /\ ~\E k \in 1..Len(sent) : sent[k].type = "document_analysis"

\* p <= q for progress values
ProgressLeq(p, q) == p[1] * q[2] <= q[1] * p[2]

\* C6: the percentages of the status messages sent for a job, those of the
\* progress callbacks and those of the handler, are non-decreasing.
C6_ProgressNonDecreasing ==
    \A a, b \in 1..Len(sent) :
        (a < b /\ sent[a].type = "status" /\ sent[b].type = "status") =>
            ProgressLeq(sent[a].progress, sent[b].progress)

\* a message that closes a job for the caller
Terminal(m) == "done" \in DOMAIN m /\ m.done

\* C7: a finished job (other than the scanned-PDF hand-off, which waits for
\* the user's choice) has been closed by exactly one terminal message.
C7_OneTerminalMessage ==
    (job.pc = "finished" /\ job.result.status # "image_based_pdf") =>
        Cardinality({k \in 1..Len(sent) : Terminal(sent[k])}) = 1

\* a progress value that is an integer between 0 and 100
IsPercent(p) == p[2] > 0 /\ p[1] % p[2] = 0 /\ 0 <= p[1] /\ p[1] <= 100 * p[2]

\* C8: every percentage sent during a job is an integer in [0, 100].
C8_PercentInRange ==
    \A k \in 1..Len(sent) :
        "progress" \in DOMAIN sent[k] => IsPercent(sent[k].progress)

\* a finished two-file job: the callbacks of the second file were issued with
\* 7.5 and 12.5 and delivered as 7 and 12, and the job closed at 100
C8_Witness ==
    /\ job.pc = "finished"
    /\ Len(job.files) = 2
    /\ job.file_i = 2
    /\ ~is_small_model(job.model)
    /\ \E k \in 1..Len(sent) : sent[k] = StatusMsg(Whole(12))
    /\ sent[Len(sent)].type = "document_analysis"
    /\ sent[Len(sent)].progress = Whole(100)

\* C14: when every attempt of the final synthesis has failed, the job does not
\* raise: it returns status "success", and its final answer holds one labelled
\* analysis for every planned chunk, in the order of the plan.
C14_SynthesisFallback ==
    (/\ backend.unit = "final"
     /\ backend.issued = MaxFinalAttempts
     /\ ~backend.succeeded
     /\ job.pc \notin {"final_inflight", "final_sleep"})
    => /\ job.raised = ""
       /\ job.result.status = "success"
       /\ job.final_analysis.kind = "fallback"
       /\ Len(job.final_analysis.parts) = Len(job.all_chunks)
       /\ \A k \in 1..Len(job.all_chunks) :
             /\ job.final_analysis.parts[k].label = job.labels[k]
             /\ job.final_analysis.parts[k].analysis \in {"analysis", "fallback"}

C14_Witness ==
    /\ job.pc = "finished"
    /\ backend.unit = "final"
    /\ backend.final_calls = MaxFinalAttempts
    /\ ~backend.succeeded
    /\ Len(job.all_chunks) >= 2
    /\ job.final_analysis.kind = "fallback"
    /\ job.result.status = "success"

\* C15: a chunked job whose planned chunks have all failed every attempt ends
\* with an error, never with a success result.
C15_AllChunksFailedIsError ==
    (/\ job.pc \in {"returned", "finished"}
     /\ job.all_chunks # <<>>
     /\ Len(job.chunk_analyses) = Len(job.all_chunks)
     /\ \A k \in 1..Len(job.chunk_analyses) : job.chunk_analyses[k] = "fallback")
    => job.result.status # "success"

\* C16: chunk calls are issued one at a time and in plan order.  At most one
\* inference call is in flight; while the call for chunk i is in flight or
\* being retried, the results of exactly the chunks before i are recorded; and
\* the recorded results are always the first entries of the plan, in its order.
C16_SequentialInOrder ==
    /\ backend.in_flight <= 1
    /\ backend.in_flight = 1 <=> job.pc \in {"chunk_inflight", "final_inflight", "direct_inflight"}
    /\ job.pc \in {"chunk_inflight", "chunk_sleep"} =>
          /\ backend.unit = "chunk"
          /\ backend.index = Len(job.chunk_analyses)
          /\ backend.index < Len(job.all_chunks)
    /\ Len(job.chunk_analyses) <= Len(job.all_chunks)
    /\ Len(job.analysis_labels) = Len(job.chunk_analyses)
    /\ \A k \in 1..Len(job.chunk_analyses) : job.analysis_labels[k] = job.labels[k]

C16_Witness ==
    /\ job.pc = "chunk_inflight"
    /\ Len(job.files) = 2
    /\ backend.index = 2
    /\ backend.in_flight = 1
    /\ Len(job.chunk_analyses) = 2
    /\ job.analysis_labels = <<[filename |-> 1, chunk_index |-> 0], [filename |-> 1, chunk_index |-> 1]>>
    /\ job.labels[3] = [filename |-> 2, chunk_index |-> 0]

\* an upper bound on the steps the job has left: 8 per chunk still to do (its
\* stop check, three calls, two sleeps, with room to spare), 9 from the end of
\* the loop on, and more than any plan needs before the plan exists
RemainingSteps ==
    LET left == 2 * (3 - job.attempt)
        todo == Len(job.all_chunks) - job.i
    IN  CASE job.pc = "finished" -> 0
          [] job.pc \in {"returned", "raised"} -> 1
          [] job.pc \in {"final_sleep", "direct_sleep"} -> left
          [] job.pc \in {"final_inflight", "direct_inflight"} -> left + 1
          [] job.pc = "loop" -> 8 * todo + 9
          [] job.pc = "chunk_sleep" -> 8 * (todo - 1) + left + 9
          [] job.pc = "chunk_inflight" -> 8 * (todo - 1) + left + 10
          [] job.pc = "chunk_text" -> 99998
          [] job.pc = "decided" -> 99999
          [] job.pc = "extract" -> 100000 + Len(job.files) - job.file_i
          [] job.pc = "warmup" -> 100001 + Len(job.files)
          [] job.pc = "registry" -> 100002 + Len(job.files)
          [] OTHER -> 100003 + Len(job.files)

\* the job can take a step.  Combine and PlanChunks are total decisions behind
\* their guards (each of their branches assigns every variable), so their
\* guards stand for them.
CanStep ==
    \/ job.pc = "extract" /\ job.file_i = Len(job.files)
    \/ job.pc = "decided"
    \/ ENABLED (\/ HandleFileAnalysis \/ AnalyzeDocuments \/ WarmUpReturns \/ ExtractFile
                \/ ChunkCheck \/ ChunkCallReturns \/ ChunkRetry
                \/ StartSynthesis \/ FinalCallReturns \/ FinalRetry
                \/ DirectCallReturns \/ DirectRetry
                \/ HandlerDeliver \/ HandlerExcept)

\* C17: a job with n planned chunks issues at most 3n chunk calls, then at most
\* 3 synthesis calls, none of them before the last chunk is recorded.  As long
\* as it has not ended the job has a step to take once its pending call, sleep
\* or send completes, and every step brings it nearer to its end; it ends with
\* a result (success, partial, or the scanned-PDF hand-off) or with an error.
C17_TerminatesWithinCallBudget ==
    /\ [](/\ backend.chunk_calls <= 3 * Len(job.all_chunks)
          /\ backend.final_calls <= 3
          /\ backend.final_calls > 0 =>
                /\ Len(job.chunk_analyses) = Len(job.all_chunks)
                /\ job.pc \notin {"loop", "chunk_inflight", "chunk_sleep"})
    /\ [](RemainingSteps >= 0 /\ (job.pc # "finished" => CanStep))
    /\ [][JobStep => RemainingSteps' < RemainingSteps]_vars
    /\ [](job.pc = "finished" =>
             \/ job.raised # ""
             \/ job.result.status \in {"success", "partial", "image_based_pdf"})

\* C18: a stop event set while the call for a chunk is in flight (or between
\* two attempts of the chunk) leaves that call alone.  The call returns or
\* raises as it would have; the chunk is retried or its result is appended to
\* the recorded results; and the stop takes effect at the top of the next
\* iteration, where no call is issued for the next chunk.
C18_StopSparesCallInFlight ==
    [][/\ (stop_event /\ job.pc = "chunk_inflight") =>
             /\ backend'.in_flight = 0
             /\ \/ job'.pc = "chunk_sleep" /\ job'.chunk_analyses = job.chunk_analyses
                \/ /\ job'.pc = "loop"
                   /\ Len(job'.chunk_analyses) = Len(job.chunk_analyses) + 1
                   /\ job'.chunk_analyses[Len(job'.chunk_analyses)] \in {"analysis", "fallback"}
                   /\ job'.i = job.i + 1
       /\ (stop_event /\ job.pc = "chunk_sleep") =>
             job'.pc = "chunk_inflight" /\ backend'.index = backend.index
       /\ (stop_event /\ job.pc = "loop" /\ job.i < Len(job.all_chunks)) =>
             /\ backend' = backend
             /\ job'.pc \in {"returned", "raised"}
             /\ job'.chunk_analyses = job.chunk_analyses
      ]_<<job, backend>>

C18_Witness ==
    /\ stop_event
    /\ job.pc = "returned"
    /\ job.result.status = "partial"
    /\ job.result.chunks_analyzed = 1
    /\ job.chunk_analyses = <<"analysis">>
    /\ backend.chunk_calls = 1
    /\ Len(job.all_chunks) >= 2

\* C19: on the direct path the first inference call is never issued while the
\* stop event is set; such a job ends without having called the backend.
C19_DirectStopBeforeCall ==
    [][stop_event => ~(backend.direct_calls = 0 /\ backend'.direct_calls = 1)]_vars

\* C20: a job whose files were all read and yielded no text at all raises
\* before should_chunk is computed, and no direct, chunk or synthesis call is
\* issued for it.
C20_EmptyTextRejected ==
    (/\ job.pc \in {"loop", "chunk_inflight", "chunk_sleep", "final_inflight", "final_sleep",
                    "direct_inflight", "direct_sleep", "returned", "raised", "finished"}
     /\ job.files # <<>>
     /\ job.file_i = Len(job.files)
     /\ SumSeq(job.document_texts) = 0)
    => /\ job.raised = "no_text"
       /\ job.should_chunk = "unset"
       /\ job.all_chunks = <<>>
       /\ backend.direct_calls = 0
       /\ backend.chunk_calls = 0
       /\ backend.final_calls = 0

C20_Witness ==
    /\ job.pc = "finished"
    /\ job.files = <<TextFile(0), TextFile(0)>>
    /\ job.document_texts = <<0, 0>>
    /\ job.raised = "no_text"
    /\ job.should_chunk = "unset"
    /\ backend.direct_calls = 0

\* C22: with the stop event set, no further attempt is issued for a chunk
\* whose previous attempt has failed.
C22_StopAbortsRetryLoop ==
    [][(stop_event /\ job.pc = "chunk_sleep") =>
          backend'.chunk_calls = backend.chunk_calls]_vars

\* C23: a stop event set before the synthesis begins, in particular while the
\* last chunk is in flight, is seen before the first synthesis call is issued.
C23_StopSeenBeforeSynthesis ==
    [][(stop_event /\ backend.final_calls = 0) => backend'.final_calls = 0]_vars

\* C24: a synthesis call exists only in a chunked job all of whose planned
\* chunks have a recorded result; a job on the direct path issues no chunk
\* call and no synthesis call, and a chunked job no direct call.
C24_SynthesisAfterChunksOnly ==
    /\ backend.final_calls > 0 =>
          /\ job.should_chunk = "chunked"
          /\ job.i = Len(job.all_chunks)
          /\ Len(job.chunk_analyses) = Len(job.all_chunks)
          /\ backend.chunk_calls >= Len(job.all_chunks)
    /\ job.should_chunk = "direct" =>
          backend.chunk_calls = 0 /\ backend.final_calls = 0 /\ job.all_chunks = <<>>
    /\ job.should_chunk # "direct" => backend.direct_calls = 0

C24_Witness ==
    /\ job.pc = "final_inflight"
    /\ backend.final_calls = 1
    /\ Len(job.all_chunks) = 5
    /\ Len(job.chunk_analyses) = 5
    /\ backend.chunk_calls = 6

\* C25: the direct path issues at most 3 calls when the combined text is
\* shorter than 10000 characters and at most 2 otherwise, and none once a call
\* has succeeded; when all of them failed the job raises, has no result, and
\* no message with progress 100 was sent.
C25_DirectAttempts ==
    LET maxAttempts == IF combined_text_len(job.document_texts) < 10000 THEN 3 ELSE 2
    IN  job.should_chunk = "direct" =>
          /\ backend.direct_calls <= maxAttempts
          /\ backend.succeeded => job.pc \notin {"direct_inflight", "direct_sleep", "raised"}
          /\ (~backend.succeeded /\ job.pc \in {"raised", "finished"}) =>
                /\ backend.direct_calls = maxAttempts
                /\ job.raised = "inference_failed"
                /\ job.result = NoResult
                /\ \A k \in 1..Len(sent) :
                      "progress" \in DOMAIN sent[k] => sent[k].progress # Whole(100)

C25_Witness ==
    /\ job.should_chunk = "direct"
    /\ job.pc = "finished"
    /\ combined_text_len(job.document_texts) >= 10000
    /\ backend.direct_calls = 2
    /\ ~backend.succeeded
    /\ job.raised = "inference_failed"

\* C31 as stated: chunk_text is invoked on a text only when the should-chunk
\* decision is true for that same text.
C31_ChunkedOnlyWhenDecided ==
    \A k \in 1..Len(job.chunk_text_calls) :
        should_chunk_documents(MODEL_CONTEXTS, job.chunk_text_calls[k], job.model)

\* C31, amended: chunk_text is invoked on the text of a document only in a
\* job whose should-chunk decision, taken once on the combined text of all its
\* documents, is true; a job that takes the direct path never invokes it.
C31_ChunkedOnlyWhenJobDecided ==
    job.chunk_text_calls # <<>> =>
        LET len == combined_text_len(job.document_texts)
            context_length == IF job.model \in DOMAIN MODEL_CONTEXTS
                              THEN MODEL_CONTEXTS[job.model] ELSE 4096
        IN  \/ (len \div 4) + 500 > (context_length * 3) \div 4
            \/ len > 15000

\* phi3:mini with documents of 7000 and 10001 characters: the combined text
\* is over 15000 characters, so both were handed to chunk_text, although the
\* first alone fits one call
C31_Witness ==
    /\ job.model = "phi3:mini"
    /\ job.chunk_text_calls = <<7000, 10001>>
    /\ job.pc = "loop"
    /\ ~should_chunk_documents(MODEL_CONTEXTS, 7000, job.model)


\* C37: update_model_info changes the registry only by setting the probed
\* model's context length when the live probe reports one; when the probe
\* fails or reports none the registry is left unchanged, and analyze_documents
\* refreshes only a model that has no entry, so no step of a job changes a
\* built-in entry.
C37_RefreshOnlyAddsProbedModel ==
    [][/\ \A m \in DOMAIN InitialModelContexts :
             m \in DOMAIN MODEL_CONTEXTS' /\ MODEL_CONTEXTS'[m] = MODEL_CONTEXTS[m]
       /\ MODEL_CONTEXTS' # MODEL_CONTEXTS =>
             /\ job.pc = "registry"
             /\ job.model \notin DOMAIN MODEL_CONTEXTS
             /\ DOMAIN MODEL_CONTEXTS' = DOMAIN MODEL_CONTEXTS \cup {job.model}
             /\ \A m \in DOMAIN MODEL_CONTEXTS : MODEL_CONTEXTS'[m] = MODEL_CONTEXTS[m]
             /\ MODEL_CONTEXTS'[job.model] \in ProbeResults]_vars

\* a job for a model outside the shipped table whose probe reported a context
\* length, past its refresh
C37_Witness ==
    /\ job.pc = "warmup"
    /\ job.model \notin DOMAIN InitialModelContexts
    /\ job.model \in DOMAIN MODEL_CONTEXTS


\* C38: whenever analyze_documents has returned or raised, every temporary
\* file it saved for the job has been removed, on every exit path (success,
\* partial, error, and the scanned-PDF hand-off).
C38_NoTempFileAfterExit ==
    job.pc \in {"returned", "raised", "finished"} => job.temp_files = {}


\* C39: get_optimal_chunk_size returns fewer than 2000 characters for every
\* small model (tinyllama:1.1b, llama3.2:1b) and more than 2000 characters
\* for every model of the registry that is not small, slow models included.
C39_ChunkSizeBySmallness ==
    \A m \in DOMAIN MODEL_CONTEXTS :
        IF is_small_model(m)
        THEN get_optimal_chunk_size(MODEL_CONTEXTS, m) < 2000
        ELSE get_optimal_chunk_size(MODEL_CONTEXTS, m) > 2000

----------------------------------------------------------------------------
(* Property of the endpoint, checked under SpecWS.                         *)

\* C5: a stop request the client sent while a job was running is acted on
\* while that job runs: the job passes no further cancellation check while
\* the request lies unread.
C5_StopReachesRunningJob ==
    \A k \in 1..Len(conn.inbox) :
        (/\ conn.inbox[k].type = "stop"
         /\ conn.inbox[k].job > 0
         /\ conn.inbox[k].job = conn.jobs) =>
            ChecksPassed <= conn.inbox[k].checks

\* C35: a stop request received while no analysis runs does not cancel a
\* file-analysis job started afterwards on the same connection: the stop flag
\* is clear when a file-analysis job begins.
C35_StopFlagClearAtJobStart ==
    job.pc = "start" => ~stop_event

\* the client sent a stop request and then files; both were read (the stop
\* first, while no job ran) and the job has just begun
C35_Witness ==
    /\ job.pc = "start"
    /\ conn.jobs = 1
    /\ conn.client_msgs = 2
    /\ conn.requests = 1
    /\ conn.inbox = <<>>

----------------------------------------------------------------------------
(* SpecChunk: chunk_text on every text of TextDescriptors, for the calls of *)
(* CT_Calls: the built-in registry, or one refreshed for custom:latest.    *)


\* the registry as shipped with any model of CT_Models, or the registry after
\* a refresh stored a context length for custom:latest, with that model
CT_Calls ==
    {[contexts |-> InitialModelContexts, model |-> m] : m \in CT_Models} \cup
    {[contexts |-> update_model_info(InitialModelContexts, "custom:latest",
                                     [reported |-> TRUE, value |-> v]),
      model |-> "custom:latest"] : v \in CT_Contexts}

InitChunk ==
    /\ \E d \in TextDescriptors, c \in CT_Calls :
          /\ WellFormed(d)
          /\ MODEL_CONTEXTS = c.contexts
          /\ ct = [CtIdle EXCEPT !.pc = "called", !.text = d, !.model = c.model]
    /\ job = JobIdle
    /\ stop_event = FALSE
    /\ sent = <<>>
    /\ backend = BackendIdle
    /\ conn = ConnOff
    /\ call = CallIdle

NextChunk == CT_Start \/ CT_Iterate

SpecChunk == InitChunk /\ [][NextChunk]_vars

RECURSIVE JoinWithoutOverlap(_, _, _)
\* chunks[k..] concatenated, each chunk first losing the characters it shares
\* with the chunk returned before it (those before prev_e)
JoinWithoutOverlap(text, chunks, k) ==
    IF k > Len(chunks) THEN <<>>
    ELSE LET c      == chunks[k]
             shared == IF k = 1 THEN 0 ELSE Max(0, chunks[k - 1].e - c.s)
             str    == ChunkStr(text, c)
         IN  SubSeq(str, shared + 1, Len(str)) \o JoinWithoutOverlap(text, chunks, k + 1)

\* C9: the chunks chunk_text returns, concatenated in order with the overlap
\* each shares with its predecessor removed, are the original text.
C9_ReconstructsText ==
    ct.pc = "returned" =>
        JoinWithoutOverlap(ct.text, ct.chunks, 1) = TextOf(ct.text)

\* C10: every returned chunk after the first begins at or before the end of
\* the chunk returned before it minus the 200-character overlap.
C10_OverlapHolds ==
    ct.pc = "returned" =>
        \A k \in 2..Len(ct.chunks) :
            ct.chunks[k].s <= ct.chunks[k - 1].e - CHUNK_OVERLAP


\* C11: no chunk chunk_text returns is the empty string, also when the text
\* left after the last cut is shorter than the overlap.
C11_NoEmptyChunk ==
    \A k \in 1..Len(ct.chunks) :
        /\ ct.chunks[k].s < ct.chunks[k].e
        /\ ChunkStr(ct.text, ct.chunks[k]) # <<>>

\* a text of 1458 characters ending in a blank: the second iteration cut the
\* one-character rest text[1457:1458], which strips to nothing, and returned
\* with the first chunk only
C11_Witness ==
    /\ ct.pc = "returned"
    /\ ct.text.len = 1458
    /\ 1457 \in ct.text.sp
    /\ ct.chunk_size = 1657
    /\ ct.start = 2914
    /\ Len(ct.chunks) = 1

\* C26: chunk_text terminates for every text and every model: each loop
\* iteration leaves start strictly greater than it was, whatever context
\* length the registry holds for the model, a refreshed one included.
C26_ChunkTextTerminates ==
    /\ [](ct.pc # "never_returns")
    /\ [][(ct.pc = "loop" /\ ct'.pc \in {"loop", "returned", "never_returns"})
              => ct'.start > ct.start]_vars

\* C27: once chunk_text has emitted a chunk that reaches the end of the text it
\* emits no further chunk: no returned chunk lies wholly inside the slice of
\* the chunk before it, so a remainder shorter than the overlap is never
\* returned as a chunk of its own.
C27_NoChunkAfterEndOfText ==
    \A k \in 1..Len(ct.chunks) :
        /\ ct.chunks[k].end >= ct.text.len => k = Len(ct.chunks)
        /\ k > 1 => ~(/\ ct.chunks[k - 1].raw_s <= ct.chunks[k].raw_s
                      /\ ct.chunks[k].raw_e <= ct.chunks[k - 1].raw_e)

\* C28: the chunk size chunk_text uses is the model's target size times the
\* size-band factor (30 to 40% for texts over 20,000 characters, 50 to 60% for
\* texts over 10,000 characters, otherwise 100%) and also times 50% when the
\* model is in the slow class, both factors multiplied together when both
\* conditions hold (up to the rounding of int()).
C28_FactorsMultiplied ==
    ct.pc \notin {"off", "called"} =>
        LET target == get_optimal_chunk_size(MODEL_CONTEXTS, ct.model)
            band   == IF ct.text.len > 20000 THEN <<30, 40>>
                      ELSE IF ct.text.len > 10000 THEN <<50, 60>>
                      ELSE <<100, 100>>
            slow   == IF ct.model \in SLOW_MODELS THEN 50 ELSE 100
            a      == target * band[1] * slow
            b      == target * band[2] * slow
        IN  /\ ct.chunk_size * 10000 > Min(a, b) - 10000
            /\ ct.chunk_size * 10000 < Max(a, b) + 10000

\* C29: when the nominal end of a chunk (start + chunk_size) lies before the
\* end of the text and a sentence terminator occurs within the 200 characters
\* before that end, the chunk is cut just after the nearest such terminator,
\* at most 200 characters back; when there is none the chunk is cut at the
\* nominal end; the last chunk (nominal end at or past the end of the text) is
\* never backed up.
C29_CutAtNearestTerminator ==
    ct.chunk_size > 0 =>
        \A k \in 1..Len(ct.chunks) :
            LET c       == ct.chunks[k]
                nominal == c.start + ct.chunk_size
                before  == {i \in Max(c.start, nominal - BOUNDARY_WINDOW)..(nominal - 1) :
                               CharAt(ct.text, i) \in Terminators}
                nearest == CHOOSE i \in before : \A j \in before : j <= i
            IN  c.start >= 0 =>
                    IF nominal < ct.text.len /\ before # {}
                    THEN c.end = nearest + 1 /\ nominal - c.end <= BOUNDARY_WINDOW
                    ELSE c.end = nominal

\* C30: every chunk chunk_text returns is small enough for a single call:
\* should_chunk_documents is false for it (its token estimate plus the 500
\* tokens of overhead is within 75% of the model's context and it is at most
\* 15,000 characters long), for every context length the registry can hold.
C30_ChunksFitOneCall ==
    ct.pc = "returned" =>
        \A k \in 1..Len(ct.chunks) :
            ~should_chunk_documents(MODEL_CONTEXTS, ct.chunks[k].e - ct.chunks[k].s,
                                    ct.model)


----------------------------------------------------------------------------
(* Properties of the pure functions, checked under SpecFn.                 *)

\* C12: should_chunk_documents(text, model) is true exactly when
\* len(text) // 4 + 500 exceeds 75% of the model's context length, rounded
\* down, or len(text) > 15000.
C12_ShouldChunkDecision ==
    call.fn = "should_chunk_documents" =>
        \A k \in 1..Len(call.results) :
            LET len == call.results[k].arg
                context_length == IF call.model \in DOMAIN MODEL_CONTEXTS
                                  THEN MODEL_CONTEXTS[call.model] ELSE 4096
            IN  call.results[k].value <=>
                    \/ (len \div 4) + 500 > (context_length * 3) \div 4
                    \/ len > 15000

\* a text of exactly 15000 characters that fits the context of phi3:mini
\* (4250 estimated tokens against 6144 available) was not chunked
C12_Witness ==
    /\ call.fn = "should_chunk_documents"
    /\ call.model = "phi3:mini"
    /\ \E k \in 1..Len(call.results) :
          call.results[k] = [arg |-> 15000, value |-> FALSE]

\* C13: the direct-path timeout calculate_timeout(text_length, False, model)
\* is non-decreasing in text_length, for every model and base timeout.
C13_DirectTimeoutMonotone ==
    (call.fn = "calculate_timeout" /\ ~call.is_chunked) =>
        \A a, b \in 1..Len(call.results) :
            call.results[a].arg <= call.results[b].arg =>
                RatLeq(call.results[a].value, call.results[b].value)

\* C21: every lookup returns a value: 4096 for a model name the table does not
\* hold at the time of the call, and the stored value for a name it holds,
\* whether the entry is shipped or was written by a refresh.
C21_LookupNeverFails ==
    [][(call.fn = "get_context_length" /\ Len(call'.results) = Len(call.results) + 1) =>
          LET r == call'.results[Len(call'.results)]
          IN  r.value = IF r.arg \in DOMAIN MODEL_CONTEXTS
                        THEN MODEL_CONTEXTS[r.arg] ELSE 4096]_vars

C21_Witness ==
    /\ call.fn = "get_context_length"
    /\ call.refreshes = 1
    /\ call.results = <<[arg |-> "custom:latest", value |-> 4096],
                        [arg |-> "custom:latest", value |-> 32768]>>

\* C32: for every text length, model and configured base timeout, the
\* direct-path timeout calculate_timeout returns is bounded by the ceiling of
\* its band (120, 90, 120, 180, 300, 600 seconds) and never exceeds 600
\* seconds.
C32_DirectTimeoutCeiling ==
    (call.fn = "calculate_timeout" /\ ~call.is_chunked) =>
        \A k \in 1..Len(call.results) :
            LET text_length == call.results[k].arg
                ceiling == IF text_length < 500 THEN 120
                           ELSE IF text_length < 1000 THEN 90
                           ELSE IF text_length < 5000 THEN 120
                           ELSE IF text_length < 15000 THEN 600
                           ELSE IF text_length < 30000 THEN 180
                           ELSE IF text_length < 50000 THEN 300
                           ELSE 600
            IN  RatLeq(call.results[k].value, <<ceiling, 1>>)

\* C33: for a fixed model and a fixed average chunk size, the width of the
\* chunk-phase progress window (progress_end - progress_start) that
\* calculate_progress_range returns is non-decreasing in the number of chunks.
C33_WindowWidthMonotone ==
    call.fn = "calculate_progress_range" =>
        \A a, b \in 1..Len(call.results) :
            call.results[a].arg <= call.results[b].arg =>
                call.results[a].value[2] - call.results[a].value[1]
                    <= call.results[b].value[2] - call.results[b].value[1]

----------------------------------------------------------------------------
(* Properties of the registry under concurrent jobs, checked under SpecReg. *)

\* C34: within one job the context length read for the chunk-or-direct
\* decision is the context length read to size its chunks, also while other
\* jobs refresh the same model's registry entry: no write lands between the
\* decision and the chunk planning.
C34_DecisionAndPlanAgree ==
    /\ job.plan_context # 0 => job.plan_context = job.decision_context
    /\ job.pc = "decided" =>
           job.decision_context = get_context_length(MODEL_CONTEXTS, job.model)

\* the job decided and planned with 2048 tokens; the entry was rewritten to
\* 32768 by another job while the job waited for a chunk call
C34_Witness ==
    /\ job.pc = "chunk_inflight"
    /\ job.decision_context = 2048
    /\ job.plan_context = 2048
    /\ MODEL_CONTEXTS["custom:latest"] = 32768
    /\ call.refreshes > 0

----------------------------------------------------------------------------
(* Property of the image analysis, checked under SpecImg.                  *)

\* C36: if the stop flag is found set at any cancellation check of an
\* image-analysis job (between images, before an attempt, or between the
\* split parts of an image), analyze_images ends with the "Analysis stopped by
\* user request" error and never returns status "success".
C36_StopFoundIsError ==
    job.stop_seen # <<>> =>
        /\ job.pc # "returned"
        /\ job.status # "success"
        /\ job.pc = "raised" => job.raised = STOPPED

====
